---------------------------- MODULE Spec2Model ----------------------------
(***************************************************************************)
(* PracticeApp (src/src/App.tsx): a single React component that loads      *)
(* users, todos and posts from a REST API and lets the user add, toggle,   *)
(* edit, delete, search and filter todos.  The component state is the set  *)
(* of useState cells; every event handler and every continuation of an     *)
(* awaited fetch is one action.  Strings are tuples of one-character       *)
(* strings so that toLowerCase, includes and trim are computed.            *)
(***************************************************************************)
EXTENDS Integers, Sequences, FiniteSets, TLC

(***************************************************************************)
(* Bounds of the model.                                                    *)
(***************************************************************************)
\* requests of addTodo/toggleTodo/deleteTodo/saveEdit awaiting a response
MaxInflight == 2
\* milliseconds Date.now() advances in a run
MaxTicks == 1
\* gestures of the user (a key, a click, a selection) in a run
MaxGestures == 3

(***************************************************************************)
(* Strings.                                                                *)
(***************************************************************************)
EmptyStr == << >>

LowerChar(c) ==
    CASE c = "A" -> "a"
      [] c = "B" -> "b"
      [] OTHER -> c

\* String.prototype.toLowerCase
ToLowerCase(s) == [i \in 1..Len(s) |-> LowerChar(s[i])]

\* String.prototype.includes
Includes(s, t) ==
    \E k \in 0..(Len(s) - Len(t)) : SubSeq(s, k + 1, k + Len(t)) = t

RECURSIVE TrimStart(_)
TrimStart(s) ==
    IF s # << >> /\ Head(s) = " " THEN TrimStart(Tail(s)) ELSE s

RECURSIVE TrimEnd(_)
TrimEnd(s) ==
    IF s # << >> /\ s[Len(s)] = " " THEN TrimEnd(SubSeq(s, 1, Len(s) - 1)) ELSE s

\* String.prototype.trim
Trim(s) == TrimEnd(TrimStart(s))

\* !s.trim() : the empty string is the only falsy string
IsBlank(s) == Trim(s) = EmptyStr

(***************************************************************************)
(* The data the API serves and the values the user types.                  *)
(***************************************************************************)
\* null of the number | null cells (every identifier is positive), and of
\* the string | null cell
Null == 0
NoError == "null"

UsersData == << [id |-> 1, name |-> "Leanne"], [id |-> 2, name |-> "Ervin"] >>

TodosData ==
    << [id |-> 1, userId |-> 1, title |-> <<"A", "B">>, completed |-> FALSE],
       [id |-> 2, userId |-> 1, title |-> <<"a">>, completed |-> TRUE] >>

PostsData ==
    << [id |-> 1, userId |-> 1], [id |-> 2, userId |-> 1], [id |-> 3, userId |-> 2] >>

\* what the user types into the new-todo input, the edit input, the search box
NewTitles == { <<" ">>, <<"b">> }
EditTitles == { <<" ">>, <<"B">> }
SearchTerms == { EmptyStr, <<"B">> }
FilterTypes == { "all", "completed", "pending" }

\* how a fetch ends: a 2xx response, another status, a rejected fetch, or
\* (where response.json() is awaited) a body that does not parse
Outcomes == { "ok", "status", "network", "parse" }

\* Date.now() is far above every identifier the API serves; now is its last
\* reading, or the time of the mount
ClockStart == 1000
\* the identifier the API echoes for a created todo
EchoId == 201

VARIABLES
    users, todos, posts, loading, error,
    searchTerm, filterType, selectedUserId,
    newTodo, editingTodo, editTitle,
    editFocused,   \* the edit input holds the focus
    loads,         \* fetchData calls awaiting their responses
    effectRuns,    \* times the mount effect has run
    inflight,      \* requests of the CRUD handlers awaiting a response
    gestures,      \* how many gestures the user has made
    now,           \* the last reading of Date.now()
    loadedBy,      \* history: which load set users, todos, posts (0: none)
    deletedIds,    \* history: the ids whose delete has been applied
    last           \* history: the handler or continuation that ran last

vars == << users, todos, posts, loading, error, searchTerm, filterType,
           selectedUserId, newTodo, editingTodo, editTitle, editFocused,
           loads, effectRuns, inflight, gestures, now, loadedBy, deletedIds,
           last >>


(***************************************************************************)
(* Values of the history variables and of the requests.                    *)
(***************************************************************************)
\* kind: the handler or continuation; id: the todo it is about (0: none);
\* via: the gesture behind a saveEdit; sent: a request was issued;
\* raced: another response for the same todo was applied while the request
\* of this response was in flight; title, completed: the body of that
\* request, or the edit buffer that a cancel or a new edit discards
NoTitle == << >>
Event(kind, id, via, sent, raced, title, completed) ==
    [kind |-> kind, id |-> id, via |-> via, sent |-> sent, raced |-> raced,
     title |-> title, completed |-> completed]
Ev(kind, id, via, sent, raced) ==
    Event(kind, id, via, sent, raced, NoTitle, FALSE)

\* a request: the closure's id and the JSON body (title, userId, completed)
Req(kind, id, title, userId, completed, via) ==
    [kind |-> kind, id |-> id, title |-> title, userId |-> userId,
     completed |-> completed, via |-> via, raced |-> FALSE]

\* Array.prototype.find on the id: the first match, or nothing
HasId(seq, id) == \E i \in DOMAIN seq : seq[i].id = id
FindById(seq, id) ==
    seq[CHOOSE i \in DOMAIN seq :
            seq[i].id = id /\ \A j \in 1..(i - 1) : seq[j].id # id]

(***************************************************************************)
(* Derived views.                                                          *)
(***************************************************************************)
\* mutant: the search term is not lower-cased
MatchesSearchRawTerm(todo, term) == Includes(ToLowerCase(todo.title), term)

MatchesSearch(todo, term) == Includes(ToLowerCase(todo.title), ToLowerCase(term))

MatchesFilter(todo, ft) ==
    \/ ft = "all"
    \/ (ft = "completed" /\ todo.completed)
    \/ (ft = "pending" /\ ~todo.completed)

MatchesUser(todo, sel) == sel = Null \/ todo.userId = sel

Matches(todo, term, ft, sel) ==
    MatchesSearch(todo, term) /\ MatchesFilter(todo, ft) /\ MatchesUser(todo, sel)

\* todos.filter(todo => matchesSearch && matchesFilter && matchesUser)
RECURSIVE FilteredOf(_, _, _, _)
FilteredOf(tds, term, ft, sel) ==
    IF tds = << >> THEN << >>
    ELSE IF Matches(Head(tds), term, ft, sel)
         THEN << Head(tds) >> \o FilteredOf(Tail(tds), term, ft, sel)
         ELSE FilteredOf(Tail(tds), term, ft, sel)

filteredTodos == FilteredOf(todos, searchTerm, filterType, selectedUserId)

\* the page behind the loading gate is rendered and takes events: the
\* mount effect runs before the first event is handled
Interactive == effectRuns > 0 /\ ~loading

\* the row of todos[i] is rendered
RowShown(i) ==
    /\ Interactive
    /\ i \in DOMAIN todos
    /\ Matches(todos[i], searchTerm, filterType, selectedUserId)

\* the edit input is rendered: some rendered row has the id being edited
EditMounted ==
    /\ Interactive
    /\ editingTodo # Null
    /\ HasId(filteredTodos, editingTodo)

\* focus after a step: an input that is gone holds no focus, a freshly
\* rendered one takes it (autoFocus), otherwise as the step left it
FocusAfter(dflt) ==
    IF ~EditMounted' THEN FALSE
    ELSE IF ~EditMounted \/ editingTodo' # editingTodo THEN TRUE
    ELSE dflt

(***************************************************************************)
(* Numbers.  The counts of the statistics are small integers; the          *)
(* completion rate is an IEEE 754 double.  A double is kept as the bits of *)
(* its significand, most significant first, and a binary exponent: its     *)
(* value is bits * 2^exp.                                                  *)
(***************************************************************************)
\* bits of the significand of a double
MantissaBits == 53
\* fraction bits of a quotient that are worked out before it is rounded
QuotientBits == 60

\* a natural number in binary, without leading zeros
RECURSIVE NatBits(_)
NatBits(n) == IF n = 0 THEN << >> ELSE Append(NatBits(n \div 2), n % 2)

RECURSIVE StripZeros(_)
StripZeros(b) == IF b # << >> /\ Head(b) = 0 THEN StripZeros(Tail(b)) ELSE b

Zeros(n) == [i \in 1..n |-> 0]

\* b * k + carry, for bits b and naturals k and carry (the test of the
\* carry has it worked out before the next bit is)
RECURSIVE TimesCarry(_, _, _)
TimesCarry(b, k, carry) ==
    IF b = << >> \/ carry < 0 THEN NatBits(carry)
    ELSE Append(TimesCarry(SubSeq(b, 1, Len(b) - 1), k,
                           (b[Len(b)] * k + carry) \div 2),
                (b[Len(b)] * k + carry) % 2)

Times(b, k) == StripZeros(TimesCarry(b, k, 0))

\* a < b, for bits without leading zeros
Less(a, b) ==
    \/ Len(a) < Len(b)
    \/ /\ Len(a) = Len(b)
       /\ \E i \in DOMAIN a :
             a[i] < b[i] /\ \A j \in 1..(i - 1) : a[j] = b[j]

Double(bits, exp) == [bits |-> bits, exp |-> exp]
Zero == Double(<< >>, 0)

\* the double nearest to b * 2^exp (+ something below the last bit when
\* sticky), ties to even
RoundToDouble(b, exp, sticky) ==
    IF b = << >> THEN Zero
    ELSE IF Len(b) <= MantissaBits THEN Double(b, exp)
    ELSE LET n == Len(b) - MantissaBits
             keep == SubSeq(b, 1, MantissaBits)
             half == b[MantissaBits + 1] = 1
             below == sticky \/ \E i \in (MantissaBits + 2)..Len(b) : b[i] = 1
             up == half /\ (below \/ keep[MantissaBits] = 1)
             m == IF up THEN TimesCarry(keep, 1, 1) ELSE keep
         IN  IF Len(m) > MantissaBits
             THEN Double(SubSeq(m, 1, MantissaBits), exp + n + 1)
             ELSE Double(m, exp + n)

\* (c * 2^n) % t
RECURSIVE Remainder(_, _, _)
Remainder(c, t, n) ==
    IF n = 0 THEN c % t ELSE (2 * Remainder(c, t, n - 1)) % t

\* c / t of two small naturals, t > 0, as the division of doubles gives it
Divide(c, t) ==
    RoundToDouble(
        StripZeros(NatBits(c \div t)
                     \o [i \in 1..QuotientBits |->
                            (2 * Remainder(c, t, i - 1)) \div t]),
        0 - QuotientBits,
        Remainder(c, t, QuotientBits) # 0)

\* d * k of a double and a small natural, as the product of doubles gives it
TimesDouble(d, k) == RoundToDouble(Times(d.bits, k), d.exp, FALSE)

\* mutant: the todos that are not completed are counted
CompletedCountPending(userTodos) ==
    Len(SelectSeq(userTodos, LAMBDA t : ~t.completed))

\* userTodos.filter(todo => todo.completed).length
CompletedCount(userTodos) ==
    Len(SelectSeq(userTodos, LAMBDA t : t.completed))

\* userTodos.length > 0 ? (completedTodos / userTodos.length) * 100 : 0
CompletionRate(completedTodos, totalTodos) ==
    IF totalTodos > 0 THEN TimesDouble(Divide(completedTodos, totalTodos), 100)
    ELSE Zero

\* the most todos a run can hold: those of the API and one per gesture
MaxTodos == Len(TodosData) + MaxGestures

\* the completion rates of all the counts a run can show, worked out once
CompletionRates ==
    [t \in 0..MaxTodos |-> [c \in 0..t |-> CompletionRate(c, t)]]

\* users.map(user => ({ ...user, totalTodos, completedTodos, totalPosts,
\*                       completionRate }))
UserStatsOf(us, tds, ps) ==
    [i \in DOMAIN us |->
        LET userTodos == SelectSeq(tds, LAMBDA t : t.userId = us[i].id)
            userPosts == SelectSeq(ps, LAMBDA p : p.userId = us[i].id)
        IN  [id |-> us[i].id, name |-> us[i].name,
             totalTodos |-> Len(userTodos),
             completedTodos |-> CompletedCount(userTodos),
             totalPosts |-> Len(userPosts),
             completionRate |->
                 CompletionRates[Len(userTodos)][CompletedCount(userTodos)]]]

userStats == UserStatsOf(users, todos, posts)

(***************************************************************************)
(* Initial state: the useState initial values.                             *)
(***************************************************************************)
Init ==
    /\ users = << >>
    /\ todos = << >>
    /\ posts = << >>
    /\ loading = FALSE
    /\ error = NoError
    /\ searchTerm = EmptyStr
    /\ filterType = "all"
    /\ selectedUserId = Null
    /\ newTodo = [title |-> EmptyStr, userId |-> 1]
    /\ editingTodo = Null
    /\ editTitle = EmptyStr
    /\ editFocused = FALSE
    /\ loads = 0
    /\ effectRuns = 0
    /\ inflight = << >>
    /\ gestures = 0
    /\ now = ClockStart
    /\ loadedBy = [users |-> 0, todos |-> 0, posts |-> 0]
    /\ deletedIds = { }
    /\ last = Ev("init", 0, "none", FALSE, FALSE)

(***************************************************************************)
(* fetchData and the mount effect.                                         *)
(***************************************************************************)
FetchDataStart ==
    /\ loading' = TRUE
    /\ error' = NoError
    /\ loads' = loads + 1

\* useEffect(() => { fetchData() }, [fetchData]) on mount
MountEffect ==
    /\ effectRuns = 0
    /\ FetchDataStart
    /\ effectRuns' = 1
    /\ editFocused' = FALSE
    /\ last' = Ev("mount", 0, "none", TRUE, FALSE)
    /\ UNCHANGED << users, todos, posts, searchTerm, filterType, selectedUserId,
                    newTodo, editingTodo, editTitle, inflight, gestures, now,
                    loadedBy, deletedIds >>

\* StrictMode (development build) runs the mount effect a second time, right
\* after the first; a production build does not
StrictRemount ==
    /\ effectRuns = 1
    /\ last.kind = "mount"
    /\ FetchDataStart
    /\ effectRuns' = 2
    /\ editFocused' = FALSE
    /\ last' = Ev("remount", 0, "none", TRUE, FALSE)
    /\ UNCHANGED << users, todos, posts, searchTerm, filterType, selectedUserId,
                    newTodo, editingTodo, editTitle, inflight, gestures, now,
                    loadedBy, deletedIds >>

\* the responses of the three fetches of one fetchData call
\* (what is never looked at is left at TRUE: the statuses of a rejected
\* fetch, the bodies behind a status that is not ok)
LoadResults ==
    { res \in [ rejected : BOOLEAN, ok : [1..3 -> BOOLEAN], parses : BOOLEAN ] :
        /\ res.rejected => (\A k \in 1..3 : res.ok[k])
        /\ (res.rejected \/ \E k \in 1..3 : ~res.ok[k]) => res.parses }

LoadSucceeds(res) ==
    /\ ~res.rejected
    /\ res.ok[1] /\ res.ok[2] /\ res.ok[3]
    /\ res.parses

\* the message of the error the catch block sees
NetworkMessage == "Failed to fetch"
ParseMessage == "Unexpected token < in JSON at position 0"
LoadError(res) ==
    IF res.rejected THEN NetworkMessage
    ELSE IF ~(res.ok[1] /\ res.ok[2] /\ res.ok[3]) THEN "Failed to fetch data"
    ELSE ParseMessage

\* mutant: each collection is set as soon as its own response is in,
\* before the three statuses are looked at
LoadedCollectionsPiecewise(res, cur) ==
    IF res.rejected THEN cur
    ELSE [users |-> IF res.ok[1] /\ res.parses THEN UsersData ELSE cur.users,
          todos |-> IF res.ok[2] /\ res.parses THEN TodosData ELSE cur.todos,
          posts |-> IF res.ok[3] /\ res.parses THEN PostsData ELSE cur.posts]

\* the collections after the try block, from the collections before it
LoadedCollections(res, cur) ==
    IF LoadSucceeds(res)
    THEN [users |-> UsersData, todos |-> TodosData, posts |-> PostsData]
    ELSE cur

\* the continuation of fetchData after its awaits
LoadLand ==
    /\ loads > 0
    /\ \E res \in LoadResults :
        LET n == effectRuns - loads + 1
            cur == [users |-> users, todos |-> todos, posts |-> posts]
            new == LoadedCollections(res, cur)
        IN  /\ users' = new.users
            /\ todos' = new.todos
            /\ posts' = new.posts
            /\ loadedBy' = [c \in {"users", "todos", "posts"} |->
                              IF new[c] # cur[c] \/ LoadSucceeds(res)
                              THEN n ELSE loadedBy[c]]
            /\ error' = IF LoadSucceeds(res) THEN error ELSE LoadError(res)
            /\ last' = Ev(IF LoadSucceeds(res) THEN "loadOk" ELSE "loadFail",
                          n, "none", FALSE, FALSE)
    /\ loading' = FALSE
    /\ loads' = loads - 1
    /\ UNCHANGED << searchTerm, filterType, selectedUserId, newTodo,
                    editingTodo, editTitle, effectRuns, inflight, gestures, now,
                    deletedIds >>
    /\ editFocused' = FocusAfter(editFocused)

\* the user acts on the page
Gesture ==
    /\ gestures < MaxGestures
    /\ gestures' = gestures + 1

\* fetch(...) of a CRUD handler: the requests join those awaiting a response
Send(reqs) ==
    /\ Len(inflight \o reqs) <= MaxInflight
    /\ inflight' = inflight \o reqs

(***************************************************************************)
(* The add form.  A control other than the edit input is used only when    *)
(* the edit input does not hold the focus: moving the focus is BlurEdit.   *)
(***************************************************************************)
\* onChange of the new-todo input
SetNewTodoTitle ==
    /\ Gesture
    /\ Interactive /\ ~editFocused
    /\ \E t \in NewTitles :
        /\ t # newTodo.title
        /\ newTodo' = [newTodo EXCEPT !.title = t]
    /\ editFocused' = FALSE
    /\ last' = Ev("input", 0, "none", FALSE, FALSE)
    /\ UNCHANGED << users, todos, posts, loading, error, searchTerm, filterType,
                    selectedUserId, editingTodo, editTitle, loads, effectRuns,
                    inflight, now, loadedBy, deletedIds >>

\* onChange of the new-todo user select: one option per loaded user
SetNewTodoUser ==
    /\ Gesture
    /\ Interactive /\ ~editFocused
    /\ \E i \in DOMAIN users :
        /\ users[i].id # newTodo.userId
        /\ newTodo' = [newTodo EXCEPT !.userId = users[i].id]
    /\ editFocused' = FALSE
    /\ last' = Ev("input", 0, "none", FALSE, FALSE)
    /\ UNCHANGED << users, todos, posts, loading, error, searchTerm, filterType,
                    selectedUserId, editingTodo, editTitle, loads, effectRuns,
                    inflight, now, loadedBy, deletedIds >>

\* mutant: the title is tested without trim()
AddTodoRequestsUntrimmed(nt) ==
    IF nt.title = EmptyStr THEN << >>
    ELSE << Req("add", 0, nt.title, nt.userId, FALSE, "click") >>

\* the requests addTodo issues: none for a blank title
AddTodoRequests(nt) ==
    IF IsBlank(nt.title) THEN << >>
    ELSE << Req("add", 0, nt.title, nt.userId, FALSE, "click") >>

\* addTodo up to its await (the Add button, or Enter in the new-todo input)
AddTodo ==
    /\ Gesture
    /\ Interactive /\ ~editFocused
    /\ Send(AddTodoRequests(newTodo))
    /\ last' = Ev("addTodo", 0, "click", AddTodoRequests(newTodo) # << >>, FALSE)
    /\ UNCHANGED << users, todos, posts, loading, error, searchTerm, filterType,
                    selectedUserId, newTodo, editingTodo, editTitle, editFocused,
                    loads, effectRuns, now, loadedBy, deletedIds >>

(***************************************************************************)
(* The rows: toggle, delete, edit.                                         *)
(***************************************************************************)
\* toggleTodo up to its await
ToggleTodo ==
    /\ Gesture
    /\ ~editFocused
    /\ \E i \in DOMAIN todos :
        /\ RowShown(i)
        /\ HasId(todos, todos[i].id)
        /\ LET todo == FindById(todos, todos[i].id)
           IN  /\ Send(<< Req("toggle", todo.id, todo.title, todo.userId,
                              ~todo.completed, "click") >>)
               /\ last' = Ev("toggleTodo", todo.id, "click", TRUE, FALSE)
    /\ UNCHANGED << users, todos, posts, loading, error, searchTerm, filterType,
                    selectedUserId, newTodo, editingTodo, editTitle, editFocused,
                    loads, effectRuns, now, loadedBy, deletedIds >>

\* deleteTodo up to its await
DeleteTodo ==
    /\ Gesture
    /\ ~editFocused
    /\ \E i \in DOMAIN todos :
        /\ RowShown(i)
        /\ Send(<< Req("delete", todos[i].id, EmptyStr, 0, FALSE, "click") >>)
        /\ last' = Ev("deleteTodo", todos[i].id, "click", TRUE, FALSE)
    /\ UNCHANGED << users, todos, posts, loading, error, searchTerm, filterType,
                    selectedUserId, newTodo, editingTodo, editTitle, editFocused,
                    loads, effectRuns, now, loadedBy, deletedIds >>

\* mutant: the buffer is tested without trim()
SaveEditRequestsUntrimmed(id, buffer, tds, via) ==
    IF buffer = EmptyStr THEN << >>
    ELSE IF HasId(tds, id)
         THEN << Req("save", id, buffer, FindById(tds, id).userId,
                     FindById(tds, id).completed, via) >>
         ELSE << Req("save", id, buffer, 0, FALSE, via) >>

\* the requests saveEdit(id) issues: none for a blank buffer; the body is
\* the found todo with the title overridden
SaveEditRequests(id, buffer, tds, via) ==
    IF IsBlank(buffer) THEN << >>
    ELSE IF HasId(tds, id)
         THEN << Req("save", id, buffer, FindById(tds, id).userId,
                     FindById(tds, id).completed, via) >>
         ELSE << Req("save", id, buffer, 0, FALSE, via) >>

\* what the edit input's onBlur issues when a click on another control of
\* the row takes the focus away from it
BlurRequests(via) ==
    IF editFocused THEN SaveEditRequests(editingTodo, editTitle, todos, via)
    ELSE << >>

\* the Edit button of a row that is not being edited: the edit input of
\* another row, if it holds the focus, loses it first (onBlur), then
\* startEditing(todo)
StartEditing ==
    /\ Gesture
    /\ \E i \in DOMAIN todos :
        /\ RowShown(i)
        /\ editingTodo # todos[i].id
        /\ editingTodo' = todos[i].id
        /\ editTitle' = todos[i].title
        /\ last' = Event("startEditing", todos[i].id, "none",
                         BlurRequests("switch") # << >>, FALSE,
                         IF EditMounted THEN editTitle ELSE NoTitle, FALSE)
    /\ Send(BlurRequests("switch"))
    /\ editFocused' = TRUE
    /\ UNCHANGED << users, todos, posts, loading, error, searchTerm, filterType,
                    selectedUserId, newTodo, loads, effectRuns, now, loadedBy,
                    deletedIds >>

\* onChange of the edit input
SetEditTitle ==
    /\ Gesture
    /\ EditMounted
    /\ \E t \in EditTitles :
        /\ t # editTitle
        /\ editTitle' = t
    /\ editFocused' = TRUE
    /\ last' = Ev("input", 0, "none", FALSE, FALSE)
    /\ UNCHANGED << users, todos, posts, loading, error, searchTerm, filterType,
                    selectedUserId, newTodo, editingTodo, loads, effectRuns,
                    inflight, now, loadedBy, deletedIds >>

\* onKeyDown Enter of the edit input: saveEdit(todo.id) up to its await
SaveEditEnter ==
    /\ Gesture
    /\ EditMounted /\ editFocused
    /\ LET reqs == SaveEditRequests(editingTodo, editTitle, todos, "enter")
       IN  /\ Send(reqs)
           /\ last' = Ev("saveEdit", editingTodo, "enter", reqs # << >>, FALSE)
    /\ UNCHANGED << users, todos, posts, loading, error, searchTerm, filterType,
                    selectedUserId, newTodo, editingTodo, editTitle, editFocused,
                    loads, effectRuns, now, loadedBy, deletedIds >>

\* onBlur of the edit input: saveEdit(todo.id) up to its await
BlurEdit ==
    /\ Gesture
    /\ EditMounted /\ editFocused
    /\ LET reqs == SaveEditRequests(editingTodo, editTitle, todos, "blur")
       IN  /\ Send(reqs)
           /\ last' = Ev("saveEdit", editingTodo, "blur", reqs # << >>, FALSE)
    /\ editFocused' = FALSE
    /\ UNCHANGED << users, todos, posts, loading, error, searchTerm, filterType,
                    selectedUserId, newTodo, editingTodo, editTitle,
                    loads, effectRuns, now, loadedBy, deletedIds >>

\* the Cancel button of the row being edited: the edit input, if it holds
\* the focus, loses it first (onBlur), then cancelEdit()
CancelEdit ==
    /\ Gesture
    /\ EditMounted
    /\ Send(BlurRequests("cancel"))
    /\ editingTodo' = Null
    /\ editTitle' = EmptyStr
    /\ editFocused' = FALSE
    /\ last' = Event("cancelEdit", editingTodo, "none",
                     BlurRequests("cancel") # << >>, FALSE, editTitle, FALSE)
    /\ UNCHANGED << users, todos, posts, loading, error, searchTerm, filterType,
                    selectedUserId, newTodo, loads, effectRuns, now, loadedBy,
                    deletedIds >>

(***************************************************************************)
(* The filters.                                                            *)
(***************************************************************************)
SetSearchTerm ==
    /\ Gesture
    /\ Interactive /\ ~editFocused
    /\ \E t \in SearchTerms :
        /\ t # searchTerm
        /\ searchTerm' = t
    /\ UNCHANGED << filterType, selectedUserId, todos, editingTodo, loading >>
    /\ last' = Ev("input", 0, "none", FALSE, FALSE)
    /\ UNCHANGED << users, posts, error, newTodo, editTitle, loads, effectRuns,
                    inflight, now, loadedBy, deletedIds >>
    /\ editFocused' = FocusAfter(FALSE)

SetFilterType ==
    /\ Gesture
    /\ Interactive /\ ~editFocused
    /\ \E ft \in FilterTypes :
        /\ ft # filterType
        /\ filterType' = ft
    /\ UNCHANGED << searchTerm, selectedUserId, todos, editingTodo, loading >>
    /\ last' = Ev("input", 0, "none", FALSE, FALSE)
    /\ UNCHANGED << users, posts, error, newTodo, editTitle, loads, effectRuns,
                    inflight, now, loadedBy, deletedIds >>
    /\ editFocused' = FocusAfter(FALSE)

\* the user select: "All Users" and one option per loaded user
SetSelectedUserId ==
    /\ Gesture
    /\ Interactive /\ ~editFocused
    /\ \E u \in {Null} \cup { users[i].id : i \in DOMAIN users } :
        /\ u # selectedUserId
        /\ selectedUserId' = u
    /\ UNCHANGED << searchTerm, filterType, todos, editingTodo, loading >>
    /\ last' = Ev("input", 0, "none", FALSE, FALSE)
    /\ UNCHANGED << users, posts, error, newTodo, editTitle, loads, effectRuns,
                    inflight, now, loadedBy, deletedIds >>
    /\ editFocused' = FocusAfter(FALSE)

(***************************************************************************)
(* The continuations of the CRUD handlers after their awaits.              *)
(***************************************************************************)
\* response.ok, and for addTodo the parsing of the body
Succeeds(outcome) == outcome = "ok"

\* the API echoes the posted body with an identifier of its own
Echo(r) ==
    [id |-> EchoId, userId |-> r.userId, title |-> r.title,
     completed |-> r.completed]

\* setTodos(prev => [...prev, { ...newTodoItem, id: Date.now() }])
AddApplied(prev, r, clock) == Append(prev, [Echo(r) EXCEPT !.id = clock])

\* mutant: the toggled todo is taken out and put back at the end
ToggleAppliedMovedLast(prev, r) ==
    SelectSeq(prev, LAMBDA t : t.id # r.id)
        \o [k \in 1..Len(SelectSeq(prev, LAMBDA t : t.id = r.id)) |->
               [SelectSeq(prev, LAMBDA t : t.id = r.id)[k]
                   EXCEPT !.completed = ~@]]

\* mutant: the flag of the request body is stored, not the inverted current one
ToggleAppliedFromBody(prev, r) ==
    [k \in DOMAIN prev |->
        IF prev[k].id = r.id THEN [prev[k] EXCEPT !.completed = r.completed]
        ELSE prev[k]]

\* setTodos(prev => prev.map(t => t.id === id ? {...t, completed: !t.completed} : t))
ToggleApplied(prev, r) ==
    [k \in DOMAIN prev |->
        IF prev[k].id = r.id THEN [prev[k] EXCEPT !.completed = ~@] ELSE prev[k]]

\* setTodos(prev => prev.filter(t => t.id !== id))
DeleteApplied(prev, r) == SelectSeq(prev, LAMBDA t : t.id # r.id)

\* mutant: the todo is replaced by the body of the request
SaveAppliedWholeBody(prev, r) ==
    [k \in DOMAIN prev |->
        IF prev[k].id = r.id
        THEN [id |-> r.id, userId |-> r.userId, title |-> r.title,
              completed |-> r.completed]
        ELSE prev[k]]

\* setTodos(prev => prev.map(t => t.id === id ? {...t, title: editTitle} : t))
SaveApplied(prev, r) ==
    [k \in DOMAIN prev |->
        IF prev[k].id = r.id THEN [prev[k] EXCEPT !.title = r.title] ELSE prev[k]]

\* mutant: response.ok is not looked at; only a rejected fetch or a body
\* that does not parse skips the update
TodosAfterResponseUnchecked(prev, r, outcome, clock) ==
    IF outcome \in {"network", "parse"} THEN prev
    ELSE CASE r.kind = "add" -> AddApplied(prev, r, clock)
           [] r.kind = "toggle" -> ToggleApplied(prev, r)
           [] r.kind = "delete" -> DeleteApplied(prev, r)
           [] r.kind = "save" -> SaveApplied(prev, r)

\* the todo list after the response to request r
TodosAfterResponse(prev, r, outcome, clock) ==
    IF ~Succeeds(outcome) THEN prev
    ELSE CASE r.kind = "add" -> AddApplied(prev, r, clock)
           [] r.kind = "toggle" -> ToggleApplied(prev, r)
           [] r.kind = "delete" -> DeleteApplied(prev, r)
           [] r.kind = "save" -> SaveApplied(prev, r)

\* the message of the catch block of each handler
FailureMessage(r) ==
    CASE r.kind = "add" -> "Failed to add todo"
      [] r.kind = "toggle" -> "Failed to update todo"
      [] r.kind = "save" -> "Failed to update todo"
      [] r.kind = "delete" -> "Failed to delete todo"

\* mutant: a response that is ok clears the message
ErrorAfterResponseCleared(err, r, outcome) ==
    IF Succeeds(outcome) THEN NoError ELSE FailureMessage(r)

ErrorAfterResponse(err, r, outcome) ==
    IF Succeeds(outcome) THEN err ELSE FailureMessage(r)

\* mutant: a request whose response is a failure is sent again
RemainingRetried(i, outcome) ==
    IF Succeeds(outcome)
    THEN [k \in 1..(Len(inflight) - 1) |->
             IF k < i THEN inflight[k] ELSE inflight[k + 1]]
    ELSE inflight

\* the requests still awaiting a response once inflight[i] has its own;
\* history: an update applied to a todo marks the other updates of the
\* same todo that are still in flight
Remaining(i, outcome) ==
    LET r == inflight[i]
        Mark(q) ==
            IF /\ Succeeds(outcome)
               /\ r.kind \in {"toggle", "save"}
               /\ q.kind \in {"toggle", "save"}
               /\ q.id = r.id
            THEN [q EXCEPT !.raced = TRUE] ELSE q
    IN  [k \in 1..(Len(inflight) - 1) |->
            Mark(IF k < i THEN inflight[k] ELSE inflight[k + 1])]

Landed(r, outcome, name) ==
    Event(name \o (IF Succeeds(outcome) THEN "Ok" ELSE "Fail"),
          r.id, r.via, FALSE, r.raced, r.title, r.completed)

\* the readings Date.now() can give after the reading now: time does not
\* run backwards, and two readings can fall into the same millisecond
Readings == { c \in now..(now + 1) : c <= ClockStart + MaxTicks }

\* addTodo after its awaits (fetch, response.json())
AddTodoLand ==
    \E i \in DOMAIN inflight, outcome \in Outcomes, clock \in Readings :
        LET r == inflight[i]
        IN  /\ r.kind = "add"
            /\ todos' = TodosAfterResponse(todos, r, outcome, clock)
            /\ now' = IF Succeeds(outcome) THEN clock ELSE now
            /\ newTodo' = IF Succeeds(outcome)
                          THEN [title |-> EmptyStr, userId |-> 1] ELSE newTodo
            /\ error' = ErrorAfterResponse(error, r, outcome)
            /\ inflight' = Remaining(i, outcome)
            /\ gestures' = gestures
            /\ last' = Landed(r, outcome, "add")
            /\ UNCHANGED << searchTerm, filterType, selectedUserId, editingTodo,
                            loading >>
            /\ UNCHANGED << users, posts, editTitle, loads, effectRuns,
                            loadedBy, deletedIds >>
            /\ editFocused' = FocusAfter(editFocused)

\* toggleTodo after its await
ToggleTodoLand ==
    \E i \in DOMAIN inflight, outcome \in Outcomes \ {"parse"} :
        LET r == inflight[i]
        IN  /\ r.kind = "toggle"
            /\ todos' = TodosAfterResponse(todos, r, outcome, now)
            /\ error' = ErrorAfterResponse(error, r, outcome)
            /\ inflight' = Remaining(i, outcome)
            /\ gestures' = gestures
            /\ last' = Landed(r, outcome, "toggle")
            /\ UNCHANGED << searchTerm, filterType, selectedUserId, editingTodo,
                            loading >>
            /\ UNCHANGED << users, posts, newTodo, editTitle, loads, effectRuns,
                            now, loadedBy, deletedIds >>
            /\ editFocused' = FocusAfter(editFocused)

\* deleteTodo after its await
DeleteTodoLand ==
    \E i \in DOMAIN inflight, outcome \in Outcomes \ {"parse"} :
        LET r == inflight[i]
        IN  /\ r.kind = "delete"
            /\ todos' = TodosAfterResponse(todos, r, outcome, now)
            /\ error' = ErrorAfterResponse(error, r, outcome)
            /\ inflight' = Remaining(i, outcome)
            /\ gestures' = gestures
            /\ last' = Landed(r, outcome, "delete")
            /\ UNCHANGED << searchTerm, filterType, selectedUserId, editingTodo,
                            loading >>
            /\ deletedIds' = IF Succeeds(outcome) THEN deletedIds \cup { r.id }
                              ELSE deletedIds
            /\ UNCHANGED << users, posts, newTodo, editTitle, loads, effectRuns,
                            now, loadedBy >>
            /\ editFocused' = FocusAfter(editFocused)

\* saveEdit after its await
SaveEditLand ==
    \E i \in DOMAIN inflight, outcome \in Outcomes \ {"parse"} :
        LET r == inflight[i]
        IN  /\ r.kind = "save"
            /\ todos' = TodosAfterResponse(todos, r, outcome, now)
            /\ editingTodo' = IF Succeeds(outcome) THEN Null ELSE editingTodo
            /\ editTitle' = IF Succeeds(outcome) THEN EmptyStr ELSE editTitle
            /\ error' = ErrorAfterResponse(error, r, outcome)
            /\ inflight' = Remaining(i, outcome)
            /\ gestures' = gestures
            /\ last' = Landed(r, outcome, "save")
            /\ UNCHANGED << searchTerm, filterType, selectedUserId, loading >>
            /\ UNCHANGED << users, posts, newTodo, loads, effectRuns, now,
                            loadedBy, deletedIds >>
            /\ editFocused' = FocusAfter(editFocused)

Next ==
    \/ MountEffect
    \/ StrictRemount
    \/ LoadLand
    \/ SetNewTodoTitle
    \/ SetNewTodoUser
    \/ AddTodo
    \/ AddTodoLand
    \/ ToggleTodo
    \/ ToggleTodoLand
    \/ DeleteTodo
    \/ DeleteTodoLand
    \/ StartEditing
    \/ SetEditTitle
    \/ SaveEditEnter
    \/ BlurEdit
    \/ SaveEditLand
    \/ CancelEdit
    \/ SetSearchTerm
    \/ SetFilterType
    \/ SetSelectedUserId

Spec == Init /\ [][Next]_vars

\* every fetch is answered or rejected in the end: the continuation of a
\* handler that awaits one runs eventually
FairSpec ==
    /\ Spec
    /\ WF_vars(LoadLand)
    /\ WF_vars(AddTodoLand)
    /\ WF_vars(ToggleTodoLand)
    /\ WF_vars(DeleteTodoLand)
    /\ WF_vars(SaveEditLand)

(***************************************************************************)
(* Properties.                                                             *)
(***************************************************************************)
\* the cells of the component and the requests it has in flight
cells == << users, todos, posts, loading, error, searchTerm, filterType,
            selectedUserId, newTodo, editingTodo, editTitle, inflight, loads >>

\* search terms beyond those the user types in the model
ProbeTerms == { <<"a">>, <<"A", "b">> }

\* the three clauses of the filter predicate, for the todo at position i
C1_Clauses(i, term, ft, sel) ==
    /\ \E k \in 0..Len(todos[i].title) :
          /\ k + Len(term) <= Len(todos[i].title)
          /\ \A m \in 1..Len(term) :
                LowerChar(todos[i].title[k + m]) = LowerChar(term[m])
    /\ ft = "all" \/ (ft = "completed") = todos[i].completed
    /\ sel = Null \/ sel = todos[i].userId

\* C1: in every reachable state (the user reaches every filter state), and
\* for further search terms, the filtered list is the todo list restricted
\* to the todos that satisfy the three clauses, in the order of the todo
\* list: its k-th entry is the k-th todo that satisfies them.
C1_FilteredIsRestriction ==
    \A term \in ProbeTerms \cup {searchTerm} :
        \A shown \in { FilteredOf(todos, term, filterType, selectedUserId) },
           keep \in { { i \in DOMAIN todos :
                          C1_Clauses(i, term, filterType, selectedUserId) } } :
            /\ Len(shown) = Cardinality(keep)
            /\ \A k \in DOMAIN shown :
                \E i \in keep :
                    /\ Cardinality({ j \in keep : j <= i }) = k
                    /\ shown[k] = todos[i]

\* C1 witness: with search term "B" and filter "pending", of the two loaded
\* todos only the first one is shown.
C1_Witness ==
    /\ Len(todos) = 2
    /\ searchTerm = <<"B">> /\ filterType = "pending" /\ selectedUserId = Null
    /\ filteredTodos = << todos[1] >>

\* C2: the step that handles a failed add, toggle, save-edit or delete
\* response sets the error message and leaves the todo list, the editing
\* target, the edit buffer and the new-todo input as they were.
C2_FailureLeavesState ==
    [][last'.kind \in {"addFail", "toggleFail", "saveFail", "deleteFail"}
         => /\ error' # NoError
            /\ todos' = todos
            /\ editingTodo' = editingTodo
            /\ editTitle' = editTitle
            /\ newTodo' = newTodo]_vars

\* C2 witness: a delete has failed, the todo is still in the list and the
\* error message is shown.
C2_Witness ==
    /\ last.kind = "deleteFail"
    /\ HasId(todos, last.id)
    /\ error = "Failed to delete todo"

C4_CancelDiscardsEdit ==
    /\ (/\ last.kind = "cancelEdit"
        /\ ~IsBlank(last.title)
        /\ \E k \in DOMAIN todos :
              todos[k].id = last.id /\ todos[k].title # last.title)
          => ~last.sent /\ editingTodo = Null /\ editTitle = EmptyStr
    /\ ~(last.kind = "saveOk" /\ last.via = "cancel")

\* C5: starting an edit on another todo while an edit input shows a buffer
\* that is not blank sends no update request for the todo whose edit is
\* abandoned, and no title is ever committed for it.
C5_SwitchAbandonsEdit ==
    /\ (last.kind = "startEditing" /\ ~IsBlank(last.title)) => ~last.sent
    /\ ~(last.kind = "saveOk" /\ last.via = "switch")

\* C6: no two todos of the list have the same id.
C6_IdsUnique ==
    \A i, j \in DOMAIN todos : i # j => todos[i].id # todos[j].id

\* C7: a successful toggle response inverts the completed flag of the
\* todo with the toggled id and changes nothing else: ids, users, titles,
\* the other todos, the length and the order of the list stay.
C7_ToggleFlipsOnlyFlag ==
    [][last'.kind = "toggleOk"
         => /\ Len(todos') = Len(todos)
            /\ \A k \in DOMAIN todos :
                /\ todos'[k].id = todos[k].id
                /\ todos'[k].userId = todos[k].userId
                /\ todos'[k].title = todos[k].title
                /\ todos'[k].completed =
                       (todos[k].completed # (todos[k].id = last'.id))]_vars

\* C7 witness: the toggle of todo 1 has been applied: it is completed now,
\* and the list still holds the two loaded todos.
C7_Witness ==
    /\ last.kind = "toggleOk" /\ last.id = 1
    /\ Len(todos) = 2
    /\ todos[1].id = 1 /\ todos[1].completed /\ todos[1].title = TodosData[1].title
    /\ todos[2] = TodosData[2]

\* C8 as claimed: when a toggle or save-edit response lands after another
\* one for the same todo that it overlapped, the todo's title and completed
\* flag are those of the body of the request that landed last.
C8_LastResponseWins ==
    (last.kind \in {"toggleOk", "saveOk"} /\ last.raced)
        => \A k \in DOMAIN todos :
              todos[k].id = last.id
                 => /\ todos[k].title = last.title
                    /\ todos[k].completed = last.completed

\* C8 amended: such a response applies its own change to the todo as it is
\* when the response lands: a toggle inverts the current flag and keeps the
\* current title, a save-edit sets the title of its request and keeps the
\* current flag.
C8_OverlapAppliesOwnChange ==
    [][(last'.kind \in {"toggleOk", "saveOk"} /\ last'.raced)
         => /\ Len(todos') = Len(todos)
            /\ \A k \in DOMAIN todos :
                IF todos[k].id # last'.id THEN todos'[k] = todos[k]
                ELSE IF last'.kind = "toggleOk"
                     THEN todos'[k] = [todos[k] EXCEPT !.completed = ~@]
                     ELSE todos'[k] = [todos[k] EXCEPT !.title = last'.title]]_vars

\* C8 witness: the second of two overlapping toggles has landed and the
\* flag is back at its value, not at the one its request carried.
C8_Witness ==
    /\ last.kind = "toggleOk" /\ last.raced
    /\ \E k \in DOMAIN todos :
          todos[k].id = last.id /\ todos[k].completed # last.completed

\* C9: add with a blank title issues no request and changes no cell.
C9_BlankAddIsNoOp ==
    [][(last'.kind = "addTodo" /\ IsBlank(newTodo.title))
         => UNCHANGED << cells, editFocused, now >>]_vars

\* C9 witness: add has been invoked with a title of one space.
C9_Witness ==
    /\ last.kind = "addTodo"
    /\ newTodo.title = <<" ">>
    /\ inflight = << >>

\* C10: save-edit with a blank buffer, by Enter or by the input losing the
\* focus, issues no request and keeps the title, the editing target and the
\* buffer.
C10_BlankSaveIsNoOp ==
    [][(last'.kind = "saveEdit" /\ IsBlank(editTitle))
         => /\ inflight' = inflight
            /\ todos' = todos
            /\ editingTodo' = editingTodo
            /\ editTitle' = editTitle
            /\ error' = error]_vars

\* C10 witness: the edit input has lost the focus with a buffer of one
\* space; the todo is still being edited.
C10_Witness ==
    /\ last.kind = "saveEdit" /\ last.via = "blur"
    /\ editingTodo = last.id /\ editingTodo # Null
    /\ editTitle = <<" ">>
    /\ inflight = << >>

\* b * 2^n, for bits b
ShiftLeft(b, n) == StripZeros(b \o Zeros(n))

\* the natural n on the scale of a double of exponent exp (exp <= 0):
\* n = Scaled(n, exp) * 2^exp
Scaled(n, exp) == ShiftLeft(NatBits(n), 0 - exp)

\* the counts of the statistics of users[i], counted on the collections
C11_Counts(st, i) ==
    /\ st.totalTodos =
          Cardinality({ k \in DOMAIN todos : todos[k].userId = users[i].id })
    /\ st.completedTodos =
          Cardinality({ k \in DOMAIN todos :
                          todos[k].userId = users[i].id /\ todos[k].completed })
    /\ st.totalPosts =
          Cardinality({ k \in DOMAIN posts : posts[k].userId = users[i].id })
    /\ st.completedTodos <= st.totalTodos

\* the rate is exact: rate * total = completed * 100
C11_Exact(rate, completed, total) ==
    Times(rate.bits, total) = Scaled(completed * 100, rate.exp)

\* the rate is in 0..100 and rate * total is within completed * 100 * 2^-51
\* of completed * 100
C11_Rounded(rate, completed, total) ==
    /\ ~Less(Scaled(100, rate.exp), rate.bits)
    /\ ~Less(ShiftLeft(Times(rate.bits, total), MantissaBits - 2),
             ShiftLeft(Times([k \in 1..(MantissaBits - 2) |-> 1],
                             completed * 100),
                       0 - rate.exp))
    /\ ~Less(ShiftLeft(Times(<< 1 >> \o Zeros(MantissaBits - 3) \o << 1 >>,
                             completed * 100),
                       0 - rate.exp),
             ShiftLeft(Times(rate.bits, total), MantissaBits - 2))

\* the rates and counts for which the two hold, worked out once
C11_Rates ==
    UNION { { CompletionRates[t][c] : c \in 0..t } : t \in 0..MaxTodos }
C11_Cases == C11_Rates \X (0..MaxTodos) \X (0..MaxTodos)
C11_ExactCases ==
    UNION { IF C11_Exact(x[1], x[2], x[3]) THEN { x } ELSE { } : x \in C11_Cases }
C11_RoundedCases ==
    UNION { IF C11_Rounded(x[1], x[2], x[3]) THEN { x } ELSE { } : x \in C11_Cases }

\* C11 as claimed: for every user the three counts are those of the
\* collections, completedTodos <= totalTodos, and completionRate is 0 for a
\* user without todos and otherwise completionRate * totalTodos =
\* completedTodos * 100.
C11_StatsExact ==
    \A stats \in { userStats } :
        \A i \in DOMAIN users :
            /\ C11_Counts(stats[i], i)
            /\ stats[i].totalTodos = 0 => stats[i].completionRate = Zero
            /\ << stats[i].completionRate, stats[i].completedTodos,
                  stats[i].totalTodos >> \in C11_ExactCases

\* C11 amended: the counts are as claimed; completionRate is 0 for a user
\* without todos and otherwise the double (completedTodos / totalTodos) * 100,
\* which lies in 0..100 and for which completionRate * totalTodos is within
\* completedTodos * 100 * 2^-51 of completedTodos * 100.
C11_StatsRounded ==
    \A stats \in { userStats } :
        \A i \in DOMAIN users :
            /\ C11_Counts(stats[i], i)
            /\ stats[i].totalTodos = 0 => stats[i].completionRate = Zero
            /\ << stats[i].completionRate, stats[i].completedTodos,
                  stats[i].totalTodos >> \in C11_RoundedCases

\* C11 witness: the first user has three todos of which one is completed,
\* and the rate times three is not one hundred; the second user has no
\* todo and the rate 0.
C11_Witness ==
    /\ Len(users) = 2
    /\ userStats[1].totalTodos = 3 /\ userStats[1].completedTodos = 1
    /\ userStats[1].totalPosts = 2
    /\ Less(Times(userStats[1].completionRate.bits, 3),
            Scaled(100, userStats[1].completionRate.exp))
    /\ userStats[2].totalTodos = 0 /\ userStats[2].completionRate = Zero

\* C12: a successful save-edit response sets the title of the todo with
\* the id of the request to the buffer that request carried, keeps the
\* other fields of that todo, the other todos, the length and the order of
\* the list, and leaves no editing target and an empty buffer.
C12_SaveCommitsTitle ==
    [][last'.kind = "saveOk"
         => /\ Len(todos') = Len(todos)
            /\ \A k \in DOMAIN todos :
                /\ todos'[k].id = todos[k].id
                /\ todos'[k].userId = todos[k].userId
                /\ todos'[k].completed = todos[k].completed
                /\ todos'[k].title =
                      IF todos[k].id = last'.id THEN last'.title
                      ELSE todos[k].title
            /\ editingTodo' = Null
            /\ editTitle' = EmptyStr]_vars

\* C12 witness: the edit of todo 2 to "B" has been saved: the title is
\* committed, the flag is as loaded and no edit is open.
C12_Witness ==
    /\ last.kind = "saveOk" /\ last.id = 2 /\ last.title = <<"B">>
    /\ Len(todos) = 2
    /\ todos[1] = TodosData[1]
    /\ todos[2] = [TodosData[2] EXCEPT !.title = <<"B">>]
    /\ editingTodo = Null /\ editTitle = EmptyStr

\* C13: whenever a load has failed, whatever the failure (a status that is
\* not ok, a rejected fetch, a body that does not parse), the error message
\* is the one generic message 'Failed to fetch data'.
C13_OneLoadMessage ==
    last.kind = "loadFail" => error = "Failed to fetch data"

\* C14: no add, toggle, save-edit or delete request is issued while a load
\* is awaiting its responses, and the todo list that a successful load
\* replaces holds no local change: it is the empty list of the mount or the
\* list as a load has set it.
C14_LoadKeepsUserWork ==
    [][/\ (last'.sent /\ last'.kind \notin {"mount", "remount"}) => loads = 0
       /\ last'.kind = "loadOk" => todos \in { << >>, TodosData }]_vars

\* C15: the editing target is none or the id of a todo of the list.
C15_EditingTargetPresent ==
    editingTodo # Null => HasId(todos, editingTodo)

\* C16: a successful save-edit response for a todo that is not the editing
\* target when it lands leaves the editing target and the edit buffer as
\* they are.
C16_SaveLandingKeepsOtherEdit ==
    [][(last'.kind = "saveOk" /\ editingTodo # last'.id)
         => editingTodo' = editingTodo /\ editTitle' = editTitle]_vars

\* C17: a todo id whose delete has been applied is in the todo list of no
\* later state.
C17_DeletedStaysDeleted ==
    \A d \in deletedIds : ~HasId(todos, d)

\* C18: a step that handles a gesture or a response of an add, toggle,
\* save-edit, cancel, start-edit, delete or filter change never takes an
\* error message away: the message is cleared only by the start of a load.
C18_ErrorSticky ==
    [][(error # NoError /\ error' = NoError)
          => last'.kind \in {"mount", "remount"}]_vars

\* C18 witness: a delete has failed and a toggle has succeeded after it;
\* the message of the delete is still shown.
C18_Witness ==
    /\ last.kind = "toggleOk"
    /\ error = "Failed to delete todo"

\* the requests a run can have in flight, by handler and todo id (0: add)
C19_Targets ==
    { << "add", 0 >> }
        \cup ({ "toggle", "delete", "save" }
                \X ({ TodosData[i].id : i \in DOMAIN TodosData }
                      \cup (ClockStart..(ClockStart + MaxTicks))))

C19_InFlight(q) ==
    \E i \in DOMAIN inflight : inflight[i].kind = q[1] /\ inflight[i].id = q[2]

\* the continuation for such a request has just run
C19_Handled(q) ==
    /\ last.kind \in { q[1] \o "Ok", q[1] \o "Fail" }
    /\ last.id = q[2]

\* C19: when every fetch is answered in the end, every started load ends
\* with the loading flag false, and every add, toggle, save-edit or delete
\* request in flight is handled; the step that handles it applies its
\* change to the todo list or sets the error message, takes that one
\* request out of flight and starts neither a request nor a load.
C19_RequestsGetHandled ==
    /\ (loads > 0) ~> (loads = 0 /\ ~loading)
    /\ \A q \in C19_Targets : C19_InFlight(q) ~> C19_Handled(q)
    /\ [][/\ last'.kind \in { "addFail", "toggleFail", "saveFail", "deleteFail" }
               => error' # NoError
          /\ last'.kind = "addOk"
               => /\ Len(todos') = Len(todos) + 1
                  /\ todos'[Len(todos')].title = last'.title
          /\ last'.kind = "toggleOk"
               => \A k \in DOMAIN todos :
                     todos[k].id = last'.id
                        => todos'[k].completed = ~todos[k].completed
          /\ last'.kind = "saveOk"
               => \A k \in DOMAIN todos :
                     todos[k].id = last'.id => todos'[k].title = last'.title
          /\ last'.kind = "deleteOk" => ~HasId(todos', last'.id)
          /\ last'.kind \in { "addOk", "toggleOk", "saveOk", "deleteOk",
                              "addFail", "toggleFail", "saveFail", "deleteFail" }
               => Len(inflight') = Len(inflight) - 1 /\ loads' = loads
          /\ last'.kind \in { "loadOk", "loadFail" }
               => loads' = loads - 1 /\ inflight' = inflight /\ ~loading'
       ]_vars

\* C19 witness: the two loads of a development build have ended, an add
\* has failed, its message is shown and nothing is in flight.
C19_Witness ==
    /\ effectRuns = 2 /\ loads = 0 /\ ~loading
    /\ last.kind = "addFail"
    /\ error = "Failed to add todo"
    /\ inflight = << >>

=============================================================================
